---------------------------- MODULE Spec2Model ----------------------------
(***************************************************************************)
(* clarisma::TaskQueue<Context, Task>: a bounded ring buffer guarded by    *)
(* one mutex (mutex_) and two condition variables (notEmpty_, notFull_).   *)
(*                                                                         *)
(* Every member function takes std::unique_lock<std::mutex> on entry, so   *)
(* a critical section that does not wait is one step of the model, taken   *)
(* only while the mutex is free.  fill() calls a user-supplied function    *)
(* once per slot while it holds the mutex; it is modelled slot by slot     *)
(* with the mutex held, so that its atomicity rests on the lock.           *)
(* A condition variable is the set of threads blocked on it; notify_one    *)
(* moves an arbitrary member out, notify_all moves all of them out, and a  *)
(* woken thread has to take the mutex again before it goes on.             *)
(***************************************************************************)
EXTENDS Integers, Sequences, FiniteSets, TLC

\* ------------------------------------------------------------------ bounds
NThreads == 3        \* threads that call into the queue
MaxSize  == 2        \* largest size passed to the constructor
MaxTasks == 3        \* tasks ever submitted

SegmentBits == 2     \* a segment holds 2^SegmentBits pages
MaxPages == 8        \* the store grows to at most this many pages
MaxBlobPages == 3    \* largest blob asked for, in pages
MaxFeatures == 4     \* Features values made
MaxItems == 5        \* items handed to the Deduplicator
MaxContents == 3     \* distinct contents of the items
MaxTableSize == 2    \* largest tableSize passed to init
MaxRuns == 1         \* queries executed

Threads == 1..NThreads
TaskIds == 1..MaxTasks
NoTask  == 0         \* a default-constructed or moved-from Task
NoThread == 0        \* the mutex is free / nobody is notified

VARIABLES
    size_,        \* int size_
    queue_,       \* std::vector<Task> queue_ (index 0..size_-1)
    front_,       \* int front_
    rear_,        \* int rear_
    count_,       \* int count_
    running_,     \* bool running_
    mutex_,       \* std::mutex mutex_: its owner, or NoThread
    notEmpty_,    \* threads blocked in notEmpty_.wait
    notFull_,     \* threads blocked in notFull_.wait
    pc,           \* where each thread is
    task,         \* process(): the local `Task task`
    tasksAdded,   \* fill(): the local tasksAdded
    supplier,     \* fill(): tasks the supplier still yields before false
    fillEntry,    \* fill(): count_, argument and queue contents at entry
    nextTask,     \* history: tasks are numbered in the order they are stored
    removed,      \* history: tasks in the order process() took them out
    processed,    \* history: times each task was passed to processTask
    observe,      \* history: the operation whose results are put on record
    last,         \* history: <<operation, result>> of the latest step, if on record
    capNoSubmit,  \* history: {latest minimumRemainingCapacity()}, {} once a task is stored
    capNoConsume  \* history: {latest minimumRemainingCapacity()}, {} once a task is taken out

\* The other components of the library; each has its own specification.
VARIABLES
    firstClause,  \* Selector: the clauses, in the order of the next pointers
    indexBits,    \* Selector: uint32_t indexBits, as the set of its one-bits
    addedClause,  \* history: {the clause last passed to addClause}
    bitsBefore,   \* history: indexBits as the latest addClause found it
    text,         \* Tile: the characters of a string, before its terminating NUL
    formatted,    \* Tile: {the tile that Tile::write put into text}
    parsed,       \* Tile: {what Tile::fromString(text) returned}
    totalPageCount,        \* BlobStore: Header::totalPageCount
    blobs,                 \* BlobStore: first page |-> the blob that starts there
    trunkFreeTable,        \* BlobStore: size class |-> first blob of its free-list, or 0
    trunkFreeTableRanges,  \* BlobStore: the groups of slots with a non-null slot
    committed,             \* BlobStore: no alloc or free since the last commit
    note,                  \* history: what the latest alloc or free found and did
    features,        \* Features: the Features values made so far
    queriesRun,      \* Features: queries executed
    predicateCalls,  \* Features: calls of user predicates
    applied,         \* history: the latest filter method, its receiver and result
    disk,            \* File: what is on the path (its directory, the file, access)
    fileHandle_,     \* File: HANDLE fileHandle_
    lastError,       \* File: the calling thread's GetLastError()
    opened,          \* history: the latest File::open, what it found and how it ended
    tableSize_,      \* Deduplicator: tableSize_, 0 before init()
    table_,          \* Deduplicator: T** table_, slot |-> first item or NoItem
    nextItem,        \* Deduplicator: *Derived::next(item) of every item
    itemCount_,      \* Deduplicator: size_t count_
    inserted,        \* history: the latest insert, what it found and returned
    bits_,           \* BitIterator: T bits_
    pos_,            \* BitIterator: int pos_
    iterated,        \* history: the bits the iterator was constructed with
    returned,        \* history: what the calls of next() returned, in order
    segmentTest      \* history: the latest isFirstPageOfSegment, its inputs and result

queueVars == <<size_, queue_, front_, rear_, count_, running_, mutex_, notEmpty_,
          notFull_, pc, task, tasksAdded, supplier, fillEntry, nextTask,
          removed, processed, observe, last, capNoSubmit, capNoConsume>>

selectorVars == <<firstClause, indexBits, addedClause, bitsBefore>>
tileVars == <<text, formatted, parsed>>
blobVars == <<totalPageCount, blobs, trunkFreeTable, trunkFreeTableRanges,
              committed, note>>

featuresVars == <<features, queriesRun, predicateCalls, applied>>

fileVars == <<disk, fileHandle_, lastError, opened>>

dedupVars == <<tableSize_, table_, nextItem, itemCount_, inserted>>

bitVars == <<bits_, pos_, iterated, returned>>

vars == <<queueVars, selectorVars, tileVars, blobVars, featuresVars, fileVars,
          dedupVars, bitVars, segmentTest>>

\* Each specification runs one component and leaves the others alone.
Elsewhere(component) ==
    /\ IF component = "TaskQueue" THEN TRUE ELSE UNCHANGED queueVars
    /\ IF component = "Selector" THEN TRUE ELSE UNCHANGED selectorVars
    /\ IF component = "Tile" THEN TRUE ELSE UNCHANGED tileVars
    /\ IF component = "BlobStore" THEN TRUE ELSE UNCHANGED blobVars
    /\ IF component = "Features" THEN TRUE ELSE UNCHANGED featuresVars
    /\ IF component = "File" THEN TRUE ELSE UNCHANGED fileVars
    /\ IF component = "Deduplicator" THEN TRUE ELSE UNCHANGED dedupVars
    /\ IF component = "BitIterator" THEN TRUE ELSE UNCHANGED bitVars
    /\ IF component = "Transaction" THEN TRUE ELSE UNCHANGED segmentTest

qvars == <<queue_, front_, rear_, count_>>
fillLocals == <<tasksAdded, supplier, fillEntry>>
caps == <<capNoSubmit, capNoConsume>>

\* Results are put on record for one operation per run.
Observed == {"none", "tryPost", "fill", "capacity", "processReturn"}
Unrecorded == <<"other", FALSE>>
Record(op, result) == IF observe = op THEN <<op, result>> ELSE Unrecorded

\* ------------------------------------------------------------ helpers
\* The tasks in the queue, oldest first.
Content ==
    [i \in 1..count_ |-> queue_[(front_ + i - 1) % size_]]

NoEntry == [cnt |-> 0, k |-> 0, content |-> <<>>]

\* Tasks the callers may still submit: stored ones and those of blocked posts.
Pending == Cardinality({t \in Threads : pc[t] \in {"post_lock", "post_wait"}})
TasksLeft == MaxTasks - (nextTask - 1) - Pending

\* The state a thread is in once it has been taken off a condition variable.
Woken(p) ==
    CASE p = "post_wait"  -> "post_lock"
      [] p = "proc_wait"  -> "proc_lock"
      [] p = "await_wait" -> "await_lock"
      [] OTHER            -> p

\* std::condition_variable::notify_one: one blocked thread, if there is any.
NotifyOne(cv) == IF cv = {} THEN {NoThread} ELSE cv

WakeOne(f, w) == IF w = NoThread THEN f ELSE [f EXCEPT ![w] = Woken(f[w])]
WakeAll(f, cv) == [u \in Threads |-> IF u \in cv THEN Woken(f[u]) ELSE f[u]]

\* ------------------------------------------------------------ constructor
QueueInit ==
    /\ size_ \in 1..MaxSize
    /\ queue_ = [i \in 0..(size_ - 1) |-> NoTask]
    /\ front_ = 0
    /\ rear_ = 0
    /\ count_ = 0
    /\ running_ = TRUE
    /\ mutex_ = NoThread
    /\ notEmpty_ = {}
    /\ notFull_ = {}
    /\ pc = [t \in Threads |-> "idle"]
    /\ task = [t \in Threads |-> NoTask]
    /\ tasksAdded = [t \in Threads |-> 0]
    /\ supplier = [t \in Threads |-> 0]
    /\ fillEntry = [t \in Threads |-> NoEntry]
    /\ nextTask = 1
    /\ removed = <<>>
    /\ processed = [i \in TaskIds |-> 0]
    /\ observe \in Observed
    /\ last = Unrecorded
    /\ capNoSubmit = {}
    /\ capNoConsume = {}

\* A queue nobody calls into.
QueueIdle == QueueInit /\ size_ = 1 /\ observe = "none"

\* Selector::Selector (src/unnamed/part_001): indexBits(0), firstClause(nullptr)
SelectorInit ==
    /\ firstClause = <<>>
    /\ indexBits = {}
    /\ addedClause = {}
    /\ bitsBefore = {}

\* No string has been written or parsed yet.
TileInit ==
    /\ text = <<>>
    /\ formatted = {}
    /\ parsed = {}

\* A blob lies inside one segment, so it has at most a segment's pages.
RECURSIVE Power2(_)
Power2(n) == IF n = 0 THEN 1 ELSE 2 * Power2(n - 1)

PagesPerSegment == Power2(SegmentBits)
SizeClasses == 1..PagesPerSegment

\* An empty store: the header page and nothing else.
NoNote == [op |-> "none"]

BlobStoreInit ==
    /\ totalPageCount = 1
    /\ blobs = {}
    /\ trunkFreeTable = [c \in SizeClasses |-> 0]
    /\ trunkFreeTableRanges = {}
    /\ committed = TRUE
    /\ note = NoNote

\* No Features value yet, no query run.
NotApplied == [method |-> "none"]

FeaturesInit ==
    /\ features = <<>>
    /\ queriesRun = 0
    /\ predicateCalls = 0
    /\ applied = NotApplied

\* A File that is not open, and a path on which nothing exists.
INVALID_HANDLE_VALUE == "INVALID_HANDLE_VALUE"
NotOpened == [ended |-> "none"]

FileInit ==
    /\ disk = [directory |-> FALSE, file |-> FALSE, denied |-> FALSE]
    /\ fileHandle_ = INVALID_HANDLE_VALUE
    /\ lastError = "ERROR_SUCCESS"
    /\ opened = NotOpened

\* Deduplicator() : count_(0), no table yet
NoItem == 0
NotInserted == [op |-> "none"]

DeduplicatorInit ==
    /\ tableSize_ = 0
    /\ table_ = <<>>
    /\ nextItem = [i \in 1..MaxItems |-> NoItem]
    /\ itemCount_ = 0
    /\ inserted = NotInserted

\* BitIterator<T>: an iterator over no bits, nothing returned yet.
BitIteratorInit ==
    /\ bits_ = 0
    /\ pos_ = 0
    /\ iterated = 0
    /\ returned = <<>>

\* BlobStore::Transaction: isFirstPageOfSegment not called yet.
TransactionInit == segmentTest = [tested |-> FALSE]

\* ------------------------------------------------------------ post
\* (a rear_ that is not wrapped around)
NextRear_NoWrap == rear_ + 1

\* queue_[rear_] = std::move(task); rear_ = (rear_ + 1) % size_; count_++;
NextRear == (rear_ + 1) % size_

Store ==
    /\ queue_' = [queue_ EXCEPT ![rear_] = nextTask]
    /\ rear_' = NextRear
    /\ count_' = count_ + 1
    /\ nextTask' = nextTask + 1
    /\ capNoSubmit' = {}
    /\ UNCHANGED <<size_, front_, capNoConsume>>

\* (a post() that stores without looking at count_)
PostMustWait_Never == FALSE

\* if (count_ == size_) notFull_.wait(lock, [this] { return count_ < size_; });
PostMustWait == count_ = size_

\* (a post() that forgets the notification)
PostWakes_Nobody == {NoThread}

\* notEmpty_.notify_one();
PostWakes == NotifyOne(notEmpty_)

\* The critical section of post(), from taking the lock (on entry, or when
\* wait() returns) to releasing it (on exit, or inside wait()).
PostBody(t) ==
    /\ mutex_ = NoThread
    /\ IF PostMustWait
       THEN /\ notFull_' = notFull_ \cup {t}
            /\ pc' = [pc EXCEPT ![t] = "post_wait"]
            /\ last' = Record("wait", FALSE)
            /\ UNCHANGED <<size_, qvars, notEmpty_, nextTask, caps>>
       ELSE /\ Store
            /\ \E w \in PostWakes :
                  /\ notEmpty_' = notEmpty_ \ {w}
                  /\ pc' = WakeOne([pc EXCEPT ![t] = "idle"], w)
            /\ last' = Record("post", TRUE)
            /\ UNCHANGED notFull_
    /\ UNCHANGED <<running_, mutex_, task, fillLocals, removed, processed,
                   observe>>

PostCall(t) ==
    /\ pc[t] = "idle"
    /\ TasksLeft > 0
    /\ PostBody(t)

PostResume(t) ==
    /\ pc[t] = "post_lock"
    /\ PostBody(t)

\* ------------------------------------------------------------ tryPost
\* (a tryPost() that stores without looking at count_)
TryPostFull_Never == FALSE

\* if (count_ == size_) return false;
TryPostFull == count_ = size_

TryPost(t) ==
    /\ pc[t] = "idle"
    /\ mutex_ = NoThread
    /\ TasksLeft > 0
    /\ IF TryPostFull
       THEN /\ last' = Record("tryPost", FALSE)
            /\ UNCHANGED <<size_, qvars, notEmpty_, pc, nextTask, caps>>
       ELSE /\ Store
            /\ \E w \in NotifyOne(notEmpty_) :
                  /\ notEmpty_' = notEmpty_ \ {w}
                  /\ pc' = WakeOne(pc, w)
            /\ last' = Record("tryPost", TRUE)
    /\ UNCHANGED <<running_, mutex_, notFull_, task, fillLocals, removed,
                   processed, observe>>

\* ------------------------------------------------------------ process
\* (a process() that returns when it finds the queue empty)
ProcessStops_WhenEmpty == ~running_ \/ count_ = 0

\* if (!running_) return;
ProcessStops == ~running_

\* if (count_ > 0) break;
ProcessHasTask == count_ > 0

\* (a process() that takes the newest task)
TakeIndex_Newest == (rear_ + size_ - 1) % size_

\* task = std::move(queue_[front_]);
TakeIndex == front_

\* (a process() that leaves front_ where it is)
NextFront_Stays == front_

\* front_ = (front_ + 1) % size_;
NextFront == (front_ + 1) % size_

\* The critical section of process(): the inner for(;;), from taking the lock
\* (at the top of the outer loop, or when wait() returns) to releasing it.
ProcessBody(t) ==
    /\ mutex_ = NoThread
    /\ IF ProcessStops
       THEN /\ pc' = [pc EXCEPT ![t] = "idle"]
            /\ last' = Record("processReturn", count_ > 0)
            /\ UNCHANGED <<qvars, notEmpty_, notFull_, task, removed,
                           capNoConsume>>
       ELSE IF ProcessHasTask
       THEN /\ task' = [task EXCEPT ![t] = queue_[TakeIndex]]
            /\ queue_' = [queue_ EXCEPT ![TakeIndex] = NoTask]
            /\ front_' = NextFront
            /\ count_' = count_ - 1
            /\ \E w \in NotifyOne(notFull_) :
                  /\ notFull_' = notFull_ \ {w}
                  /\ pc' = WakeOne([pc EXCEPT ![t] = "proc_task"], w)
            /\ removed' = Append(removed, queue_[TakeIndex])
            /\ capNoConsume' = {}
            /\ last' = Record("take", TRUE)
            /\ UNCHANGED <<rear_, notEmpty_>>
       ELSE /\ notEmpty_' = notEmpty_ \cup {t}
            /\ pc' = [pc EXCEPT ![t] = "proc_wait"]
            /\ last' = Record("wait", FALSE)
            /\ UNCHANGED <<qvars, notFull_, task, removed, capNoConsume>>
    /\ UNCHANGED <<size_, running_, mutex_, fillLocals, nextTask, processed,
                   capNoSubmit, observe>>

ProcessCall(t) ==
    /\ pc[t] = "idle"
    /\ ProcessBody(t)

ProcessResume(t) ==
    /\ pc[t] = "proc_lock"
    /\ ProcessBody(t)

\* ctx->processTask(task), outside the lock
ProcessTask(t) ==
    /\ pc[t] = "proc_task"
    /\ processed' = IF task[t] \in TaskIds
                    THEN [processed EXCEPT ![task[t]] = @ + 1]
                    ELSE processed
    /\ task' = [task EXCEPT ![t] = NoTask]
    /\ pc' = [pc EXCEPT ![t] = "proc_lock"]
    /\ last' = Record("processTask", task[t] \in TaskIds)
    /\ UNCHANGED <<size_, qvars, running_, mutex_, notEmpty_, notFull_,
                   fillLocals, nextTask, removed, caps, observe>>

\* ------------------------------------------------------------ fill
\* (a fill() that does not take the lock)
FillLock_None(t) == NoThread

\* std::unique_lock<std::mutex> lock(mutex_);
FillLock(t) == t

\* while (count_ < size_) { if (!supplier(&queue_[rear_])) break; ... }
FillGoesOn(t) == count_ < size_ /\ supplier[t] > 0

\* if (tasksAdded) notEmpty_.notify_all();
FillNotifies(t) == tasksAdded[t] # 0

\* return count_ == size_;
FillResult == count_ = size_

\* fill(supplier) with a supplier that yields k tasks and then returns false.
FillCall(t, k) ==
    /\ pc[t] = "idle"
    /\ mutex_ = NoThread
    /\ mutex_' = FillLock(t)
    /\ tasksAdded' = [tasksAdded EXCEPT ![t] = 0]
    /\ supplier' = [supplier EXCEPT ![t] = k]
    /\ fillEntry' = [fillEntry EXCEPT
                        ![t] = [cnt |-> count_, k |-> k, content |-> Content]]
    /\ pc' = [pc EXCEPT ![t] = "fill_loop"]
    /\ last' = Record("call", FALSE)
    /\ UNCHANGED <<size_, qvars, running_, notEmpty_, notFull_, task,
                   nextTask, removed, processed, caps, observe>>

FillIterate(t) ==
    /\ pc[t] = "fill_loop"
    /\ FillGoesOn(t)
    /\ Store
    /\ tasksAdded' = [tasksAdded EXCEPT ![t] = @ + 1]
    /\ supplier' = [supplier EXCEPT ![t] = @ - 1]
    /\ last' = Record("fillStore", TRUE)
    /\ UNCHANGED <<running_, mutex_, notEmpty_, notFull_, pc, task, fillEntry,
                   removed, processed, observe>>

FillExit(t) ==
    /\ pc[t] = "fill_loop"
    /\ ~FillGoesOn(t)
    /\ IF FillNotifies(t)
       THEN /\ notEmpty_' = {}
            /\ pc' = WakeAll([pc EXCEPT ![t] = "idle"], notEmpty_)
       ELSE /\ pc' = [pc EXCEPT ![t] = "idle"]
            /\ UNCHANGED notEmpty_
    /\ mutex_' = IF mutex_ = t THEN NoThread ELSE mutex_
    /\ supplier' = [supplier EXCEPT ![t] = 0]
    /\ tasksAdded' = [tasksAdded EXCEPT ![t] = 0]
    /\ fillEntry' = [fillEntry EXCEPT ![t] = NoEntry]
    /\ last' = Record("fill", FillResult)
    /\ UNCHANGED <<size_, qvars, running_, notFull_, task, nextTask, removed,
                   processed, caps, observe>>

\* ------------------------------------------- minimumRemainingCapacity
\* (a minimumRemainingCapacity() that returns the number of tasks)
RemainingCapacity_Count == count_

\* return size_ - count_;
RemainingCapacity == size_ - count_

MinimumRemainingCapacity(t) ==
    /\ pc[t] = "idle"
    /\ mutex_ = NoThread
    /\ last' = Record("capacity", RemainingCapacity)
    /\ capNoSubmit' = IF observe = "capacity" THEN {RemainingCapacity} ELSE {}
    /\ capNoConsume' = IF observe = "capacity" THEN {RemainingCapacity} ELSE {}
    /\ UNCHANGED <<size_, qvars, running_, mutex_, notEmpty_, notFull_, pc,
                   task, fillLocals, nextTask, removed, processed, observe>>

\* ------------------------------------------------------------ awaitCompletion
\* while (count_ != 0) notFull_.wait(lock);
AwaitMustWait == count_ # 0

\* The critical section of awaitCompletion(), from taking the lock (on entry,
\* or when wait() returns) to releasing it.
AwaitBody(t) ==
    /\ mutex_ = NoThread
    /\ IF AwaitMustWait
       THEN /\ notFull_' = notFull_ \cup {t}
            /\ pc' = [pc EXCEPT ![t] = "await_wait"]
            /\ last' = Record("wait", FALSE)
       ELSE /\ pc' = [pc EXCEPT ![t] = "idle"]
            /\ last' = Record("awaitReturn", count_ > 0)
            /\ UNCHANGED notFull_
    /\ UNCHANGED <<size_, qvars, running_, mutex_, notEmpty_, task,
                   fillLocals, nextTask, removed, processed, caps, observe>>

AwaitCall(t) ==
    /\ pc[t] = "idle"
    /\ AwaitBody(t)

AwaitResume(t) ==
    /\ pc[t] = "await_lock"
    /\ AwaitBody(t)

\* ------------------------------------------------------------ shutdown
\* (a shutdown() that calls notify_one)
ShutdownWakes_One == IF notEmpty_ = {} THEN {} ELSE {CHOOSE w \in notEmpty_ : TRUE}

\* running_ = false; notEmpty_.notify_all();
ShutdownWakes == notEmpty_

Shutdown(t) ==
    /\ pc[t] = "idle"
    /\ mutex_ = NoThread
    /\ running_' = FALSE
    /\ notEmpty_' = notEmpty_ \ ShutdownWakes
    /\ pc' = WakeAll(pc, ShutdownWakes)
    /\ last' = Record("shutdown", FALSE)
    /\ UNCHANGED <<size_, qvars, mutex_, notFull_, task, fillLocals,
                   nextTask, removed, processed, caps, observe>>

\* ------------------------------------------------------------ spurious wake-up
\* std::condition_variable::wait(lock) may return without a notification.
SpuriousWakeup(t) ==
    /\ pc[t] \in {"post_wait", "proc_wait", "await_wait"}
    /\ notEmpty_' = notEmpty_ \ {t}
    /\ notFull_' = notFull_ \ {t}
    /\ pc' = [pc EXCEPT ![t] = Woken(pc[t])]
    /\ last' = Record("spurious", FALSE)
    /\ UNCHANGED <<size_, qvars, running_, mutex_, task, fillLocals,
                   nextTask, removed, processed, caps, observe>>

\* ------------------------------------------------------------ specification
\* What a thread does by itself once it is inside a call: it takes the mutex
\* again after a wake-up or at the top of process()'s loop, runs processTask,
\* and goes through fill()'s loop.  Calling an operation is up to the caller,
\* and a spurious wake-up is never owed.
Advance(t) ==
    \/ PostResume(t)
    \/ ProcessResume(t)
    \/ ProcessTask(t)
    \/ AwaitResume(t)
    \/ FillIterate(t)
    \/ FillExit(t)

\* The queue runs with the other components left as constructed.
Components ==
    /\ SelectorInit /\ TileInit /\ BlobStoreInit /\ FeaturesInit /\ FileInit
    /\ DeduplicatorInit /\ BitIteratorInit /\ TransactionInit

Init == QueueInit /\ Components

\* Every component as constructed, the queue idle.
Constructed == QueueIdle /\ Components

Next ==
    \E t \in Threads :
        \/ PostCall(t) /\ Elsewhere("TaskQueue")
        \/ PostResume(t) /\ Elsewhere("TaskQueue")
        \/ TryPost(t) /\ Elsewhere("TaskQueue")
        \/ \E k \in 0..TasksLeft : FillCall(t, k) /\ Elsewhere("TaskQueue")
        \/ FillIterate(t) /\ Elsewhere("TaskQueue")
        \/ FillExit(t) /\ Elsewhere("TaskQueue")
        \/ MinimumRemainingCapacity(t) /\ Elsewhere("TaskQueue")
        \/ ProcessCall(t) /\ Elsewhere("TaskQueue")
        \/ ProcessResume(t) /\ Elsewhere("TaskQueue")
        \/ ProcessTask(t) /\ Elsewhere("TaskQueue")
        \/ AwaitCall(t) /\ Elsewhere("TaskQueue")
        \/ AwaitResume(t) /\ Elsewhere("TaskQueue")
        \/ Shutdown(t) /\ Elsewhere("TaskQueue")
        \/ SpuriousWakeup(t) /\ Elsewhere("TaskQueue")

Spec == Init /\ [][Next]_vars

\* Fair scheduling: a thread that can go on again and again does go on.
Fairness == \A t \in Threads : SF_queueVars(Advance(t))

\* The runs that put no results on record, under fair scheduling.
LiveInit == Init /\ observe = "none"
FairSpec == LiveInit /\ [][Next]_vars /\ Fairness

\* ------------------------------------------------------------ properties
InProcess(t) == pc[t] \in {"proc_lock", "proc_wait", "proc_task"}
Stored == 1..(nextTask - 1)
Range(f) == {f[i] : i \in DOMAIN f}

\* C1: process() takes the tasks out in exactly the order in which post(),
\* tryPost() and fill() stored them (tasks are numbered in storing order).
C1_Fifo == \A i \in 1..Len(removed) : removed[i] = i

C1_Witness == size_ = 2 /\ Len(removed) >= 3

\* C7: count_ stays within 0..size_, and every task that was stored and not
\* yet taken out is still in the queue, each once (none was overwritten).
C7_Bounded ==
    /\ count_ \in 0..size_
    /\ Range(Content) = Stored \ Range(removed)
    /\ Cardinality(Range(Content)) = count_

C7_Witness == count_ = size_ /\ \E t \in Threads : pc[t] = "post_wait"

Waiting(t) == pc[t] \in {"post_wait", "proc_wait", "await_wait"}

\* C2 as stated: a call to process() never returns while the queue still
\* holds a task (count_ > 0).
C2_ReturnsOnlyWhenEmpty ==
    [][last'[1] = "processReturn" => count_ = 0]_vars

\* C2 as amended: process() returns only once shutdown() has been called
\* (running_ is false); from then on a thread in process() that takes the
\* mutex returns without taking a task, whether or not count_ > 0.
C2_ReturnsOnShutdown ==
    [][/\ last'[1] = "processReturn" => ~running_ /\ UNCHANGED qvars
       /\ \A t \in Threads :
             /\ (InProcess(t) /\ ~InProcess(t)') => ~running_
             /\ (~running_ /\ pc[t] = "proc_lock" /\ pc'[t] # "proc_lock")
                   => pc'[t] = "idle" /\ UNCHANGED <<qvars, removed, task>>
      ]_vars

C2_Witness == last = <<"processReturn", TRUE>> /\ count_ > 0

\* C3: whenever a producer is blocked in post() and the queue is not full
\* (a consumer has taken a task out), a blocked producer is woken and stores
\* its task: that situation does not last for ever.
ProducerStuck == count_ < size_ /\ \E t \in Threads : pc[t] = "post_wait"

C3_ProducerWoken == ProducerStuck ~> ~ProducerStuck

\* C4: no thread returns from awaitCompletion() while count_ > 0, and every
\* thread blocked in awaitCompletion() returns once the queue is empty and
\* stays empty.
C4_AwaitCompletion ==
    /\ [][\A t \in Threads :
            (pc[t] = "await_lock" /\ pc'[t] = "idle") => count_ = 0]_vars
    /\ \A t \in Threads :
          (pc[t] = "await_wait" /\ count_ = 0)
              ~> (pc[t] # "await_wait" \/ count_ # 0)

\* C5: while shutdown() has not been called and some thread is in process(),
\* every task in the queue is eventually taken out and passed to processTask.
C5_TaskProcessed ==
    \A i \in TaskIds :
        (i \in Range(Content) /\ running_ /\ \E t \in Threads : InProcess(t))
            ~> (processed[i] > 0 \/ ~running_)

C5_Witness ==
    /\ running_
    /\ \A i \in TaskIds : processed[i] = 1
    /\ \E t \in Threads : pc[t] = "proc_wait"

\* C6: once shutdown() has been called no thread is blocked in process()
\* waiting for a task, none starts to wait again, and every thread that
\* shutdown() woke returns from process().
C6_ShutdownWakesAll ==
    /\ [](~running_ => notEmpty_ = {} /\ \A t \in Threads : pc[t] # "proc_wait")
    /\ \A t \in Threads :
          (~running_ /\ pc[t] = "proc_lock") ~> (pc[t] = "idle")

C6_Witness ==
    /\ ~running_
    /\ count_ = 0
    /\ Cardinality({t \in Threads : pc[t] = "proc_lock"}) >= 2

\* C8: tryPost() puts no thread to sleep; on a full queue it returns false
\* and leaves queue_, front_, rear_ and count_ as they are; otherwise it
\* stores the task at rear_, behind the queued tasks, adds one to count_ and
\* returns true.
C8_TryPost ==
    [][last'[1] = "tryPost" =>
         /\ \A t \in Threads : Waiting(t)' => Waiting(t)
         /\ notFull_' = notFull_
         /\ notEmpty_' \subseteq notEmpty_
         /\ IF count_ = size_
            THEN last'[2] = FALSE /\ UNCHANGED qvars
            ELSE /\ last'[2] = TRUE
                 /\ queue_' = [queue_ EXCEPT ![rear_] = nextTask]
                 /\ rear_' = (rear_ + 1) % size_
                 /\ count_' = count_ + 1
                 /\ front_' = front_
                 /\ Content' = Append(Content, nextTask)
      ]_vars

C8_Witness == last = <<"tryPost", FALSE>> /\ count_ = size_

Min(a, b) == IF a < b THEN a ELSE b

\* What C9 says of a step in which thread t returns from fill(): the queue
\* holds the tasks it held on entry followed by the supplier's tasks in
\* supplier order, min(free slots, tasks the supplier yields) of them, and
\* the result is true exactly when the queue is full.
FillOutcome(t) ==
    LET e == fillEntry[t]
        n == Min(size_ - e.cnt, e.k)
    IN  /\ tasksAdded[t] = n
        /\ count_' = e.cnt + n
        /\ Content' = e.content \o [j \in 1..n |-> nextTask - n - 1 + j]
        /\ last'[2] = (count_' = size_)

\* While a thread is inside fill(), the queue changes only by that thread
\* storing one more task.
FillAtomic ==
    \A t \in Threads :
        pc[t] = "fill_loop" =>
            \/ UNCHANGED <<qvars, running_>>
            \/ /\ tasksAdded'[t] = tasksAdded[t] + 1
               /\ Content' = Append(Content, nextTask)
               /\ UNCHANGED running_

\* C9 as stated: fill() is atomic, stores min(free slots, supplied tasks)
\* tasks in supplier order, notifies all waiting consumers, and returns true
\* exactly when the queue is full.
C9_FillNotifiesAll ==
    [][/\ FillAtomic
       /\ last'[1] = "fill" =>
             \E t \in Threads :
                /\ pc[t] = "fill_loop" /\ pc'[t] = "idle"
                /\ FillOutcome(t)
                /\ notEmpty_' = {}
      ]_vars

\* C9 as amended: as stated, but the consumers are notified (all of them)
\* only by a fill() that has stored at least one task; a fill() that stored
\* none notifies nobody.
C9_FillNotifiesIfAdded ==
    [][/\ FillAtomic
       /\ last'[1] = "fill" =>
             \E t \in Threads :
                /\ pc[t] = "fill_loop" /\ pc'[t] = "idle"
                /\ FillOutcome(t)
                /\ IF tasksAdded[t] > 0
                   THEN /\ notEmpty_' = {}
                        /\ \A u \in notEmpty_ : pc'[u] = "proc_lock"
                   ELSE /\ notEmpty_' = notEmpty_
                        /\ \A u \in notEmpty_ : pc'[u] = pc[u]
      ]_vars

C9_Witness ==
    /\ last = <<"fill", TRUE>>
    /\ size_ = 2
    /\ \E t \in Threads : pc[t] = "proc_lock"

\* C10: a value returned by minimumRemainingCapacity() stays at most the
\* number of free slots until the next task is stored, whatever process()
\* does meanwhile; and as long as no task is taken out, a later call does
\* not return more than an earlier one.
C10_LowerBound ==
    /\ [](\A r \in capNoSubmit : r <= size_ - count_)
    /\ [][last'[1] = "capacity" =>
            \A r \in capNoConsume : last'[2] <= r]_vars

C10_Witness == \E r \in capNoSubmit : r < size_ - count_

\* C23: with any number of threads submitting and any number running
\* process(), whatever is taken out of the queue and handed to processTask
\* is a task that post(), tryPost() or fill() stored before, and no task is
\* taken out or handed to processTask twice: no slot is read while it is
\* empty or after its task has been moved out.
C23_NoDuplication ==
    /\ \A i \in 1..Len(removed) : removed[i] \in Stored
    /\ \A i, j \in 1..Len(removed) : removed[i] = removed[j] => i = j
    /\ \A t \in Threads : pc[t] = "proc_task" => task[t] \in Range(removed)
    /\ \A k \in TaskIds :
           /\ processed[k] <= 1
           /\ processed[k] = 1 => k \in Range(removed)
           /\ processed[k] = 1 => \A t \in Threads : task[t] # k

\* Two threads are in processTask at the same time, each with a task of its
\* own, after a third task has been processed.
C23_Witness ==
    \E t, u \in Threads :
        /\ t # u
        /\ pc[t] = "proc_task" /\ pc[u] = "proc_task"
        /\ task[t] # task[u]
        /\ \E k \in TaskIds : processed[k] = 1

RingBuffer ==
    /\ 0 <= front_ /\ front_ < size_
    /\ 0 <= rear_ /\ rear_ < size_
    /\ rear_ = (front_ + count_) % size_

\* C24: whenever the mutex is free, front_ and rear_ are indices of the
\* buffer and rear_ = (front_ + count_) mod size_, after any interleaving of
\* the operations; and no step of shutdown() or awaitCompletion() changes
\* front_, rear_, count_ or the queued tasks.
C24_RingBuffer ==
    /\ [](mutex_ = NoThread => RingBuffer)
    /\ [][(\E t \in Threads : Shutdown(t) \/ AwaitCall(t) \/ AwaitResume(t))
            => UNCHANGED qvars]_vars

\* The indices have wrapped around (rear_ is behind front_), a thread waits
\* in awaitCompletion() and shutdown() has been called.
C24_Witness ==
    /\ mutex_ = NoThread
    /\ size_ = 2 /\ front_ = 1 /\ rear_ = 0 /\ count_ = 1
    /\ ~running_
    /\ \E t \in Threads : pc[t] = "await_wait"

\* ================================================================ Selector
\* Selector::addClause (src/unnamed/part_001).  A TagClause is the record of
\* the fields addClause reads; `absorbed` is what absorb() leaves behind.
MaxKey == 4          \* distinct keyOp values, in compareTo order
MaxCategory == 2     \* index categories

Category(k) == ((k - 1) % MaxCategory) + 1

Clauses ==
    { [keyOp |-> k, required |-> r, category |-> Category(k), absorbed |-> FALSE] :
        k \in 1..MaxKey, r \in BOOLEAN }

\* current->keyOp.compareTo(&clause->keyOp): negative, zero or positive
CompareTo(a, b) == a - b

\* if (comp < 0) { pNext = &current->next; continue; }
WalksPast_OrEqual(comp) == comp <= 0
WalksPast(comp) == comp < 0

\* The place of `current` when the loop is left: the first clause that is not
\* walked past, or one beyond the last clause (current == nullptr).
RECURSIVE Walk(_, _)
Walk(clause, i) ==
    IF i > Len(firstClause) THEN i
    ELSE IF WalksPast(CompareTo(firstClause[i].keyOp, clause.keyOp))
         THEN Walk(clause, i + 1)
         ELSE i

\* current->absorb(clause): the clause is merged into current, in place
Absorb(current, clause) == [current EXCEPT !.absorbed = TRUE]

\* IndexBits::fromCategory(clause->category)
FromCategory(category) == {category}

\* clause->next = current; *pNext = clause;
Link(clause, i) ==
    SubSeq(firstClause, 1, i - 1) \o <<clause>>
        \o SubSeq(firstClause, i, Len(firstClause))

AddClause(clause) ==
    LET i == Walk(clause, 1)
        atEnd == i > Len(firstClause)
    IN  /\ addedClause' = {clause}
        /\ bitsBefore' = indexBits
        /\ IF ~atEnd /\ CompareTo(firstClause[i].keyOp, clause.keyOp) = 0
           THEN /\ firstClause' = [firstClause EXCEPT ![i] = Absorb(@, clause)]
                /\ UNCHANGED indexBits
           ELSE /\ indexBits' = IF clause.required
                                THEN indexBits \cup FromCategory(clause.category)
                                ELSE indexBits
                /\ firstClause' = Link(clause, i)

SelectorNext == \E clause \in Clauses : AddClause(clause) /\ Elsewhere("Selector")

SelectorSpec == Constructed /\ [][SelectorNext]_vars

\* C11: after any sequence of addClause calls the clause list is in strictly
\* ascending keyOp order, so it holds at most one clause per key; a clause
\* whose keyOp is already in the list is absorbed by the clause that is there
\* and is not linked into the list.
C11_Ascending ==
    /\ \A i \in 1..(Len(firstClause) - 1) :
           firstClause[i].keyOp < firstClause[i + 1].keyOp
    /\ \A c \in addedClause : \E i \in 1..Len(firstClause) :
           /\ firstClause[i].keyOp = c.keyOp
           /\ firstClause[i] # c => firstClause[i].absorbed

\* Three clauses are linked and the latest call met its key in the middle.
C11_Witness ==
    /\ Len(firstClause) = 3
    /\ firstClause[2].absorbed
    /\ \E c \in addedClause : c.keyOp = firstClause[2].keyOp

\* C12: after addClause(c) with c flagged KEY_REQUIRED, indexBits holds the
\* bit of c's category whatever the selector held before (nothing, a clause
\* with the same keyOp included), and addClause clears no bit.
C12_IndexBit ==
    /\ \A c \in addedClause : c.required => FromCategory(c.category) \subseteq indexBits
    /\ bitsBefore \subseteq indexBits

\* ==================================================================== Tile
\* Tile::formatReverse, Tile::write and Tile::fromString (src/unnamed/part_000).
\* A string is the sequence of its characters; the character after the last
\* one is the terminating NUL.
MaxText == 6         \* longest string typed in for fromString
MaxCoord == 11       \* largest column and row of the tiles written
MaxZoom == 12        \* if (zoom < 0 || zoom > 12) return Tile();

NUL == "NUL"
DigitChars == <<"0", "1", "2", "3", "4", "5", "6", "7", "8", "9">>
IsDigit(c) == \E d \in 1..Len(DigitChars) : DigitChars[d] = c
DigitValue(c) == (CHOOSE d \in 1..Len(DigitChars) : DigitChars[d] = c) - 1
Typed == {"0", "1", "2", "3", "/", "-", " "}

CharAt(str, i) == IF i <= Len(str) THEN str[i] ELSE NUL

\* A tile is its zoom, column and row; Tile() is the null tile.
NullTile == [zoom |-> -1, column |-> -1, row |-> -1]
FromColumnRowZoom(col, row, zoom) == [zoom |-> zoom, column |-> col, row |-> row]

Tiles ==
    { FromColumnRowZoom(c, r, z) : c \in 0..MaxCoord, r \in 0..MaxCoord, z \in 0..MaxZoom }

ValidTile(t) == t.column < Power2(t.zoom) /\ t.row < Power2(t.zoom)

\* Format::unsignedIntegerReverse(n, end): the decimal digits of n, written
\* from the last one backwards in front of what is already there.
RECURSIVE UnsignedIntegerReverse(_, _)
UnsignedIntegerReverse(n, end) ==
    LET e == <<DigitChars[(n % 10) + 1]>> \o end
    IN  IF n \div 10 = 0 THEN e ELSE UnsignedIntegerReverse(n \div 10, e)

\* Tile::formatReverse: row, '/', column, '/', zoom, from the end backwards
FormatReverse_ColumnLast(t) ==
    UnsignedIntegerReverse(t.zoom,
        <<"/">> \o UnsignedIntegerReverse(t.row,
            <<"/">> \o UnsignedIntegerReverse(t.column, <<>>)))
FormatReverse(t) ==
    UnsignedIntegerReverse(t.zoom,
        <<"/">> \o UnsignedIntegerReverse(t.column,
            <<"/">> \o UnsignedIntegerReverse(t.row, <<>>)))

\* strtol(s + start - 1, &p, 10): white space is skipped, one sign is taken,
\* then the digits; with no digit at all the value is 0 and p is where the
\* call started.
RECURSIVE SkipSpace(_, _)
SkipSpace(str, i) == IF CharAt(str, i) = " " THEN SkipSpace(str, i + 1) ELSE i

RECURSIVE ScanDigits(_, _, _)
ScanDigits(str, i, acc) ==
    IF IsDigit(CharAt(str, i))
    THEN ScanDigits(str, i + 1, acc * 10 + DigitValue(CharAt(str, i)))
    ELSE [value |-> acc, p |-> i]

Strtol(str, start) ==
    LET i == SkipSpace(str, start)
        signed == CharAt(str, i) \in {"-", "+"}
        j == IF signed THEN i + 1 ELSE i
        scan == ScanDigits(str, j, 0)
    IN  IF scan.p = j THEN [value |-> 0, p |-> start]
        ELSE IF CharAt(str, i) = "-" THEN [value |-> 0 - scan.value, p |-> scan.p]
        ELSE scan

FromString(str) ==
    LET zoom == Strtol(str, 1)
        col == Strtol(str, zoom.p + 1)
        row == Strtol(str, col.p + 1)
    IN  IF zoom.value < 0 \/ zoom.value > MaxZoom THEN NullTile
        ELSE IF CharAt(str, zoom.p) # "/" THEN NullTile
        ELSE IF CharAt(str, col.p) # "/" THEN NullTile
        ELSE IF CharAt(str, row.p) # NUL THEN NullTile
        ELSE FromColumnRowZoom(col.value, row.value, zoom.value)

\* A caller builds a string character by character ...
TypeChar(c) ==
    /\ formatted = {} /\ parsed = {}
    /\ Len(text) < MaxText
    /\ text' = Append(text, c)
    /\ UNCHANGED <<formatted, parsed>>

\* ... or has Tile::write produce it
Write(t) ==
    /\ formatted = {} /\ parsed = {} /\ text = <<>>
    /\ ValidTile(t)
    /\ text' = FormatReverse(t)
    /\ formatted' = {t}
    /\ UNCHANGED parsed

FromStringCall ==
    /\ parsed = {}
    /\ parsed' = {FromString(text)}
    /\ UNCHANGED <<text, formatted>>

TileNext ==
    \/ \E c \in Typed : TypeChar(c) /\ Elsewhere("Tile")
    \/ text = <<>> /\ \E t \in Tiles : Write(t) /\ Elsewhere("Tile")
    \/ FromStringCall /\ Elsewhere("Tile")

TileSpec == Constructed /\ [][TileNext]_vars

\* "<zoom>/<column>/<row>": three unsigned decimal numbers, none of them
\* empty, nothing before, between or after them, zoom in 0..12.
RECURSIVE DigitsEnd(_, _)
DigitsEnd(str, i) == IF IsDigit(CharAt(str, i)) THEN DigitsEnd(str, i + 1) ELSE i

WellFormed(str) ==
    LET z == DigitsEnd(str, 1)
        c == DigitsEnd(str, z + 1)
        r == DigitsEnd(str, c + 1)
    IN  /\ z > 1 /\ CharAt(str, z) = "/"
        /\ c > z + 1 /\ CharAt(str, c) = "/"
        /\ r > c + 1 /\ r = Len(str) + 1
        /\ ScanDigits(str, 1, 0).value <= MaxZoom

\* C13: fromString returns the null Tile for every string that is not exactly
\* "<zoom>/<column>/<row>" of three unsigned decimal numbers with zoom in
\* [0,12]: no white space, no sign, no empty number, no trailing characters.
C13_NullUnlessWellFormed ==
    (parsed # {} /\ ~WellFormed(text)) => parsed = {NullTile}

\* C14: for every tile with zoom in [0,12] and column and row valid for the
\* zoom, fromString of the text that formatReverse / write produced is the
\* same tile.
C14_RoundTrip ==
    \A t \in formatted : parsed # {} => parsed = {t}

\* A tile of two-digit zoom, column and row has made the round trip.
C14_Witness ==
    /\ formatted = {FromColumnRowZoom(10, 11, MaxZoom)}
    /\ parsed = formatted

\* =============================================================== BlobStore
\* BlobStore::Transaction (src/include/clarisma/util/BitIterator.h declares
\* alloc, free, commit, addFreeBlob and removeFreeBlob).  A blob is the record
\* of its first page, its length in pages and the fields of struct Blob; the
\* free-table has one slot per size class, a size class being a page count.
SegmentMask == 1073741823        \* 0x3fff'ffff
BLOB_HEADER_SIZE == 8
SlotsPerRange == 16              \* slots behind one bit of trunkFreeTableRanges

pageSizeShift_ == 30 - SegmentBits
PageSize == Power2(pageSizeShift_)

RECURSIVE BitAnd(_, _)
BitAnd(a, b) ==
    IF a = 0 \/ b = 0 THEN 0
    ELSE (a % 2) * (b % 2) + 2 * BitAnd(a \div 2, b \div 2)

ShiftRight(a, n) == a \div Power2(n)

\* (page & ((0x3fff'ffff) >> store()->pageSizeShift_)) == 0
IsFirstPageOfSegment_ByteMask(page) ==
    BitAnd(page, ShiftRight(SegmentMask, 30)) = 0
IsFirstPageOfSegment(page) ==
    BitAnd(page, ShiftRight(SegmentMask, pageSizeShift_)) = 0

\* pages = ceil((payloadSize + 8) / pageSize)
PagesForPayloadSize(payloadSize) ==
    (payloadSize + BLOB_HEADER_SIZE + PageSize - 1) \div PageSize

Payloads ==
    {0} \cup { k * PageSize - h : k \in 1..MaxBlobPages,
                                  h \in {BLOB_HEADER_SIZE, BLOB_HEADER_SIZE - 1} }

RangeOf(slot) == slot \div SlotsPerRange

HasBlob(bs, page) == \E b \in bs : b.page = page
BlobAt(bs, page) == CHOOSE b \in bs : b.page = page
Drop(bs, page) == {b \in bs : b.page # page}
Put(bs, blob) == Drop(bs, blob.page) \cup {blob}

UsedBlob(page, pages, precedingFreePages) ==
    [page |-> page, pages |-> pages, isFree |-> FALSE,
     precedingFreeBlobPages |-> precedingFreePages,
     prevFreeBlob |-> 0, nextFreeBlob |-> 0]

\* The store as the operations below pass it on.
Here == [blobs |-> blobs, table |-> trunkFreeTable, ranges |-> trunkFreeTableRanges]

\* The length of the free blob that ends right before page, or 0.
PrecedingFree(bs, page) ==
    IF \E b \in bs : b.isFree /\ b.page + b.pages = page
    THEN (CHOOSE b \in bs : b.isFree /\ b.page + b.pages = page).pages
    ELSE 0

SetPreceding(st, page, n) ==
    IF HasBlob(st.blobs, page)
    THEN [st EXCEPT !.blobs =
             Put(@, [BlobAt(@, page) EXCEPT !.precedingFreeBlobPages = n])]
    ELSE st

\* addFreeBlob: the blob becomes the first of the free-list of its size class
\* (the most recently freed is found first); the range bit is set.
AddFreeBlob_AtEnd(st, firstPage, pages, precedingFreePages) ==
    LET inList == {b \in st.blobs : b.isFree /\ b.pages = pages /\ b.nextFreeBlob = 0}
        blob == [page |-> firstPage, pages |-> pages, isFree |-> TRUE,
                 precedingFreeBlobPages |-> precedingFreePages,
                 prevFreeBlob |-> IF inList = {} THEN 0 ELSE (CHOOSE b \in inList : TRUE).page,
                 nextFreeBlob |-> 0]
        linked == { [b EXCEPT !.nextFreeBlob = firstPage] : b \in inList }
    IN  [blobs |-> Put((st.blobs \ inList) \cup linked, blob),
         table |-> IF inList = {} THEN [st.table EXCEPT ![pages] = firstPage]
                   ELSE st.table,
         ranges |-> st.ranges \cup {RangeOf(pages)}]
AddFreeBlob(st, firstPage, pages, precedingFreePages) ==
    LET head == st.table[pages]
        blob == [page |-> firstPage, pages |-> pages, isFree |-> TRUE,
                 precedingFreeBlobPages |-> precedingFreePages,
                 prevFreeBlob |-> 0, nextFreeBlob |-> head]
        linked == IF head = 0 THEN st.blobs
                  ELSE Put(st.blobs,
                           [BlobAt(st.blobs, head) EXCEPT !.prevFreeBlob = firstPage])
    IN  [blobs |-> Put(linked, blob),
         table |-> [st.table EXCEPT ![pages] = firstPage],
         ranges |-> st.ranges \cup {RangeOf(pages)}]

\* removeFreeBlob: the blob is unlinked from its free-list; the range bit is
\* cleared when no slot of its group is left non-null.
RemoveFreeBlob(st, page) ==
    LET blob == BlobAt(st.blobs, page)
        bs1 == IF blob.prevFreeBlob = 0 THEN st.blobs
               ELSE Put(st.blobs, [BlobAt(st.blobs, blob.prevFreeBlob)
                                      EXCEPT !.nextFreeBlob = blob.nextFreeBlob])
        bs2 == IF blob.nextFreeBlob = 0 THEN bs1
               ELSE Put(bs1, [BlobAt(bs1, blob.nextFreeBlob)
                                 EXCEPT !.prevFreeBlob = blob.prevFreeBlob])
        t == IF blob.prevFreeBlob = 0
             THEN [st.table EXCEPT ![blob.pages] = blob.nextFreeBlob]
             ELSE st.table
        r == IF \E c \in SizeClasses : RangeOf(c) = RangeOf(blob.pages) /\ t[c] # 0
             THEN st.ranges
             ELSE st.ranges \ {RangeOf(blob.pages)}
    IN  [blobs |-> Drop(bs2, page), table |-> t, ranges |-> r]

\* free, for a blob in use: merge with the free blob before it, merge with
\* the free blob after it (neither across a segment boundary), put the result
\* into its free-list and tell the blob that follows.
MergesNext_Never(bs, next) == FALSE
MergesNext(bs, next) ==
    /\ HasBlob(bs, next)
    /\ ~IsFirstPageOfSegment(next)
    /\ BlobAt(bs, next).isFree

FreeBlob(st, firstPage) ==
    LET blob == BlobAt(st.blobs, firstPage)
        prevPages == blob.precedingFreeBlobPages
        mergePrev == prevPages # 0 /\ ~IsFirstPageOfSegment(firstPage)
        start == IF mergePrev THEN firstPage - prevPages ELSE firstPage
        preceding == IF mergePrev
                     THEN BlobAt(st.blobs, start).precedingFreeBlobPages
                     ELSE prevPages
        st1 == IF mergePrev THEN RemoveFreeBlob(st, start) ELSE st
        next == firstPage + blob.pages
        mergeNext == MergesNext(st1.blobs, next)
        nextPages == IF mergeNext THEN BlobAt(st1.blobs, next).pages ELSE 0
        st2 == IF mergeNext THEN RemoveFreeBlob(st1, next) ELSE st1
        pages == (firstPage - start) + blob.pages + nextPages
        st3 == AddFreeBlob(st2, start, pages, preceding)
        st4 == IF mergePrev THEN [st3 EXCEPT !.blobs = Drop(@, firstPage)] ELSE st3
    IN  SetPreceding(st4, start + pages, pages)

\* alloc from the free-table: the first blob of the smallest size class that
\* is large enough; what is left of it goes back to the free-table.
Fitting(pages) == {c \in SizeClasses : c >= pages /\ trunkFreeTable[c] # 0}

AllocFromFree(pages) ==
    LET c == CHOOSE x \in Fitting(pages) : \A y \in Fitting(pages) : x <= y
        firstPage == trunkFreeTable[c]
        blob == BlobAt(blobs, firstPage)
        st1 == RemoveFreeBlob(Here, firstPage)
        st2 == [st1 EXCEPT !.blobs =
                   Put(@, UsedBlob(firstPage, pages, blob.precedingFreeBlobPages))]
        st3 == IF c > pages THEN AddFreeBlob(st2, firstPage + pages, c - pages, 0)
               ELSE st2
    IN  [st |-> SetPreceding(st3, firstPage + c, c - pages),
         page |-> firstPage, total |-> totalPageCount]

\* alloc by extending the store at totalPageCount; a blob that does not fit
\* into what is left of the segment starts at the next segment, and what is
\* left becomes a free blob.
AllocByExtending(pages) ==
    LET at == totalPageCount
        room == PagesPerSegment - BitAnd(at, ShiftRight(SegmentMask, pageSizeShift_))
        gap == IF room < pages THEN room ELSE 0
        st1 == IF gap = 0 THEN Here
               ELSE FreeBlob([Here EXCEPT !.blobs =
                                 Put(@, UsedBlob(at, gap, PrecedingFree(blobs, at)))], at)
        firstPage == at + gap
    IN  [st |-> [st1 EXCEPT !.blobs =
                    Put(@, UsedBlob(firstPage, pages, PrecedingFree(st1.blobs, firstPage)))],
         page |-> firstPage, total |-> firstPage + pages]

Alloc(payloadSize) ==
    LET pages == PagesForPayloadSize(payloadSize)
        extends == Fitting(pages) = {}
    IN  \E done \in {IF extends THEN AllocByExtending(pages) ELSE AllocFromFree(pages)} :
        /\ pages <= PagesPerSegment
        /\ done.total <= MaxPages
        /\ blobs' = done.st.blobs
        /\ trunkFreeTable' = done.st.table
        /\ trunkFreeTableRanges' = done.st.ranges
        /\ totalPageCount' = done.total
        /\ committed' = FALSE
        /\ note' = [op |-> "alloc", page |-> done.page, pages |-> pages,
                    extended |-> extends, before |-> Here]

\* free: a no-op (with a diagnostic) on a blob that is free already
FreeIsNoop_Never(firstPage) == FALSE
FreeIsNoop(firstPage) == BlobAt(blobs, firstPage).isFree

Free(firstPage) ==
    /\ HasBlob(blobs, firstPage)
    /\ note' = IF BlobAt(blobs, firstPage).isFree
               THEN [op |-> "freeAgain", page |-> firstPage, before |-> Here]
               ELSE IF note.op = "alloc" /\ note.page = firstPage
               THEN [note EXCEPT !.op = "allocFree"]
               ELSE [op |-> "free", page |-> firstPage]
    /\ IF FreeIsNoop(firstPage)
       THEN UNCHANGED <<totalPageCount, blobs, trunkFreeTable,
                        trunkFreeTableRanges, committed>>
       ELSE \E st \in {FreeBlob(Here, firstPage)} :
                /\ blobs' = st.blobs
                /\ trunkFreeTable' = st.table
                /\ trunkFreeTableRanges' = st.ranges
                /\ committed' = FALSE
                /\ UNCHANGED totalPageCount

\* commit: the pages and then the header are forced to the file
Commit ==
    /\ committed' = TRUE
    /\ note' = NoNote
    /\ UNCHANGED <<totalPageCount, blobs, trunkFreeTable, trunkFreeTableRanges>>

BlobStoreNext ==
    \/ \E payloadSize \in Payloads : Alloc(payloadSize) /\ Elsewhere("BlobStore")
    \/ \E b \in blobs : Free(b.page) /\ Elsewhere("BlobStore")
    \/ Commit /\ Elsewhere("BlobStore")

BlobStoreSpec == Constructed /\ [][BlobStoreNext]_vars

\* The free-lists as the next pointers chain them, one per size class.
RECURSIVE Chain(_, _)
Chain(page, fuel) ==
    IF page = 0 \/ fuel = 0 THEN <<>>
    ELSE IF ~HasBlob(blobs, page) THEN <<page>>
    ELSE <<page>> \o Chain(BlobAt(blobs, page).nextFreeBlob, fuel - 1)

FreeList(c) == Chain(trunkFreeTable[c], Cardinality(blobs) + 1)

Listed(page) ==
    { <<c, i>> \in SizeClasses \X (1..(MaxPages + 1)) :
        i <= Len(FreeList(c)) /\ FreeList(c)[i] = page }

SegmentOf(page) == page \div PagesPerSegment

AdjacentFree ==
    \E a, b \in blobs :
        /\ a.isFree /\ b.isFree
        /\ a.page + a.pages = b.page
        /\ SegmentOf(a.page) = SegmentOf(b.page)

FreeTableState(st) ==
    [table |-> st.table, ranges |-> st.ranges,
     free |-> {b \in st.blobs : b.isFree},
     preceding |-> { <<b.page, b.precedingFreeBlobPages>> : b \in st.blobs }]

C17_FreeAgainNoop ==
    note.op = "freeAgain" =>
        /\ Here = note.before
        /\ \E c \in SizeClasses, i \in 1..(MaxPages + 1) : Listed(note.page) = {<<c, i>>}

\* A free blob between two others in its free-list has been freed again.
C17_Witness ==
    /\ note.op = "freeAgain"
    /\ BlobAt(blobs, note.page).prevFreeBlob # 0
    /\ BlobAt(blobs, note.page).nextFreeBlob # 0

\* ================================================================ Features
\* class Features (src/include/geodesk/filter/ComboFilter.h declares it and
\* documents it).  A Features value is the store it reads, the accepted types,
\* the matcher (the queries applied, all of which must match) and the filter
\* (the sub-filters of a ComboFilter, in the order they were added).
FeatureTypes == {"node", "way", "relation"}

World == [store |-> "gol", types |-> FeatureTypes, matcher |-> <<>>, filter |-> <<>>]

\* What the filter methods add.
Constraints ==
    { [method |-> "query", arg |-> "q"], [method |-> "filter", arg |-> "p"] }
      \cup { [method |-> "types", arg |-> {t}] : t \in FeatureTypes }
      \cup { [method |-> m, arg |-> "g"] :
                m \in {"within", "intersecting", "containing", "maxMetersFrom"} }

\* ComboFilter::add
Add_Replace(filter, c) == <<c>>
Add(filter, c) == Append(filter, c)

\* The receiver's constraint composed with the added one.
Composed(f, c) ==
    IF c.method = "query" THEN [f EXCEPT !.matcher = Append(@, c.arg)]
    ELSE IF c.method = "types" THEN [f EXCEPT !.types = @ \cap c.arg]
    ELSE [f EXCEPT !.filter = Add(@, c)]

\* Features(const char* golFile)
Open ==
    /\ Len(features) < MaxFeatures
    /\ features' = Append(features, World)
    /\ applied' = NotApplied
    /\ UNCHANGED <<queriesRun, predicateCalls>>

\* operator()(query), nodes(), ways(), relations(), within(), intersecting(),
\* containing(), maxMetersFrom(), filter(predicate), called on features[i]
Receiver_Narrowed(i, c) == Composed(features[i], c)
Receiver(i, c) == features[i]

ApplyFilter(i, c) ==
    /\ Len(features) < MaxFeatures
    /\ features' = Append([features EXCEPT ![i] = Receiver(i, c)],
                          Composed(features[i], c))
    /\ applied' = [method |-> c.method, added |-> c, receiver |-> i,
                   was |-> features[i], result |-> Len(features) + 1,
                   runs |-> queriesRun, calls |-> predicateCalls]
    /\ UNCHANGED <<queriesRun, predicateCalls>>

\* count(): the query is executed, the predicates of the filter are called
Count(i) ==
    /\ queriesRun < MaxRuns
    /\ queriesRun' = queriesRun + 1
    /\ predicateCalls' = predicateCalls
           + Cardinality({k \in 1..Len(features[i].filter) :
                             features[i].filter[k].method = "filter"})
    /\ applied' = NotApplied
    /\ UNCHANGED features

FeaturesNext ==
    \/ Open /\ Elsewhere("Features")
    \/ \E i \in 1..Len(features), c \in Constraints :
           ApplyFilter(i, c) /\ Elsewhere("Features")
    \/ \E i \in 1..Len(features) : Count(i) /\ Elsewhere("Features")

FeaturesSpec == Constructed /\ [][FeaturesNext]_vars

\* The features of a store, by what the constraints look at, and the features
\* a constraint and a Features value let through.
Stored_Features == [type : FeatureTypes, tagged : BOOLEAN, placed : BOOLEAN, liked : BOOLEAN]

Satisfies(x, c) ==
    IF c.method = "query" THEN x.tagged
    ELSE IF c.method = "types" THEN x.type \in c.arg
    ELSE IF c.method = "filter" THEN x.liked
    ELSE x.placed

Selects(f, x) ==
    /\ x.type \in f.types
    /\ f.matcher # <<>> => x.tagged
    /\ \A k \in 1..Len(f.filter) : Satisfies(x, f.filter[k])

\* C18: a filter method returns a new Features value that selects what the
\* receiver selects and the added constraint lets through, on the same store;
\* the receiver's store, types, matcher and filter are as before; no query is
\* executed and no predicate is called.
C18_Persistent ==
    applied.method # "none" =>
        /\ features[applied.receiver] = applied.was
        /\ features[applied.result].store = applied.was.store
        /\ \A x \in Stored_Features :
               Selects(features[applied.result], x)
                   <=> (Selects(applied.was, x) /\ Satisfies(x, applied.added))
        /\ queriesRun = applied.runs
        /\ predicateCalls = applied.calls

\* filter(predicate) on a value that has a query and a spatial filter, after
\* queries have been run and predicates called.
C18_Witness ==
    /\ applied.method = "filter"
    /\ applied.was.matcher # <<>>
    /\ applied.was.filter # <<>>
    /\ predicateCalls > 0

\* ==================================================================== File
\* File::open and File::exists (src/src/clarisma/io/File_windows.cxx).  The
\* path names a file in a directory; the operating system answers from what
\* is on the disk.
OpenModes == SUBSET {"READ", "WRITE", "CREATE", "REPLACE_EXISTING", "SPARSE"}

\* creationDisposition, lines 23-34
CreationDisposition(mode) ==
    IF "REPLACE_EXISTING" \in mode THEN "CREATE_ALWAYS"
    ELSE IF "CREATE" \in mode THEN "OPEN_ALWAYS"
    ELSE "OPEN_EXISTING"

\* CreateFileA: the handle, the last error and the disk it leaves
CreateFileA(creationDisposition) ==
    IF ~disk.directory
    THEN [handle |-> INVALID_HANDLE_VALUE, error |-> "ERROR_PATH_NOT_FOUND", disk |-> disk]
    ELSE IF disk.denied
    THEN [handle |-> INVALID_HANDLE_VALUE, error |-> "ERROR_ACCESS_DENIED", disk |-> disk]
    ELSE IF disk.file
    THEN [handle |-> "handle",
          error |-> IF creationDisposition = "OPEN_EXISTING" THEN "ERROR_SUCCESS"
                    ELSE "ERROR_ALREADY_EXISTS",
          disk |-> disk]
    ELSE IF creationDisposition = "OPEN_EXISTING"
    THEN [handle |-> INVALID_HANDLE_VALUE, error |-> "ERROR_FILE_NOT_FOUND", disk |-> disk]
    ELSE [handle |-> "handle", error |-> "ERROR_SUCCESS",
          disk |-> [disk EXCEPT !.file = TRUE]]

\* GetFileAttributesA: the last error, ERROR_SUCCESS when it has the attributes
GetFileAttributesA ==
    IF ~disk.directory THEN "ERROR_PATH_NOT_FOUND"
    ELSE IF ~disk.file THEN "ERROR_FILE_NOT_FOUND"
    ELSE IF disk.denied THEN "ERROR_ACCESS_DENIED"
    ELSE "ERROR_SUCCESS"

\* IOException::checkAndThrow(): an IOException that wraps the last error
CheckAndThrow(error) == IF error # "ERROR_SUCCESS" THEN "IOException" ELSE "returned"

\* File::exists, lines 237-251: "true", "false" or the exception
Exists ==
    LET error == GetFileAttributesA
    IN  IF error = "ERROR_SUCCESS" THEN "true"
        ELSE IF error # "ERROR_FILE_NOT_FOUND" /\ error # "ERROR_PATH_NOT_FOUND"
             THEN CheckAndThrow(error)
        ELSE "false"

\* File::open, lines 9-59: how the call ends
OpenEnds(handle, error) ==
    IF handle = INVALID_HANDLE_VALUE
    THEN IF error = "ERROR_FILE_NOT_FOUND" THEN "FileNotFoundException"
         ELSE CheckAndThrow(error)
    ELSE "returned"

FileOpen(mode) ==
    LET os == CreateFileA(CreationDisposition(mode))
    IN  /\ fileHandle_' = os.handle
        /\ lastError' = os.error
        /\ disk' = os.disk
        /\ opened' = [ended |-> OpenEnds(os.handle, os.error), mode |-> mode,
                      existed |-> Exists]

\* File::close, lines 61-68
FileClose ==
    /\ fileHandle_ # INVALID_HANDLE_VALUE
    /\ fileHandle_' = INVALID_HANDLE_VALUE
    /\ opened' = NotOpened
    /\ UNCHANGED <<disk, lastError>>

\* Other programs change what is on the path.
DiskChanges ==
    /\ \E d \in [directory : BOOLEAN, file : BOOLEAN, denied : BOOLEAN] :
           /\ d.file => d.directory
           /\ d # disk
           /\ disk' = d
    /\ opened' = NotOpened
    /\ UNCHANGED <<fileHandle_, lastError>>

FileNext ==
    \/ \E mode \in OpenModes : FileOpen(mode) /\ Elsewhere("File")
    \/ FileClose /\ Elsewhere("File")
    \/ DiskChanges /\ Elsewhere("File")

FileSpec == Constructed /\ [][FileNext]_vars

\* C19: open of a path that does not exist (File::exists is false), in a
\* mode without CREATE or REPLACE_EXISTING, ends with FileNotFound, whether
\* the file or a directory on its path is missing; every other failure ends
\* with an IoError; open does not return with an invalid handle.
C19_FileNotFound ==
    opened.ended # "none" =>
        LET missing == /\ opened.existed = "false"
                       /\ opened.mode \cap {"CREATE", "REPLACE_EXISTING"} = {}
        IN  /\ missing => opened.ended = "FileNotFoundException"
            /\ (~missing /\ fileHandle_ = INVALID_HANDLE_VALUE) =>
                   opened.ended = "IOException"
            /\ opened.ended = "returned" => fileHandle_ # INVALID_HANDLE_VALUE

\* ============================================================ Deduplicator
\* Deduplicator::insert and insertUnique
\* (src/include/clarisma/data/Deduplicator.h).  Items are told apart by their
\* address; several of them have the same content.
Items == 1..MaxItems

ContentOf(item) == ((item - 1) % MaxContents) + 1

\* Derived::hash(item): a hash of the item's bytes
Hash(item) == ContentOf(item)

\* *item == *existing
SameContent_SameItem(item, existing) == item = existing
SameContent(item, existing) == ContentOf(item) = ContentOf(existing)

\* init(table, tableSize): an empty table
DedupSetup(tableSize) ==
    /\ tableSize_ = 0
    /\ tableSize_' = tableSize
    /\ table_' = [slot \in 0..(tableSize - 1) |-> NoItem]
    /\ inserted' = NotInserted
    /\ UNCHANGED <<nextItem, itemCount_>>

\* The items of a chain, from `existing` on.
RECURSIVE ChainFrom(_, _, _)
ChainFrom(nxt, existing, fuel) ==
    IF existing = NoItem \/ fuel = 0 THEN <<>>
    ELSE <<existing>> \o ChainFrom(nxt, nxt[existing], fuel - 1)

\* while (existing) { if (*item == *existing) return existing; ... }
RECURSIVE Find(_, _)
Find(item, existing) ==
    IF existing = NoItem THEN NoItem
    ELSE IF SameContent(item, existing) THEN existing
    ELSE Find(item, nextItem[existing])

Linked(table, nxt) ==
    UNION { {ChainFrom(nxt, table[slot], MaxItems)[k] :
                k \in 1..Len(ChainFrom(nxt, table[slot], MaxItems))} :
            slot \in DOMAIN table }

LinkedItems == Linked(table_, nextItem)

\* *Derived::next(item) = table_[slot]; table_[slot] = item; count_++;
LinkAtHead(item, slot) ==
    /\ nextItem' = [nextItem EXCEPT ![item] = table_[slot]]
    /\ table_' = [table_ EXCEPT ![slot] = item]
    /\ itemCount_' = itemCount_ + 1

\* insertUnique(item), for an item known to be unique
InsertUnique(item) ==
    LET slot == Hash(item) % tableSize_
    IN  /\ tableSize_ > 0
        /\ \A e \in LinkedItems : ~SameContent(item, e)
        /\ LinkAtHead(item, slot)
        /\ inserted' = NotInserted
        /\ UNCHANGED tableSize_

\* insert(item)
Insert(item) ==
    LET slot == Hash(item) % tableSize_
        found == Find(item, table_[slot])
    IN  /\ tableSize_ > 0
        /\ IF found # NoItem
           THEN UNCHANGED <<table_, nextItem, itemCount_>>
           ELSE LinkAtHead(item, slot)
        /\ inserted' = [op |-> "insert", item |-> item,
                        returned |-> IF found # NoItem THEN found ELSE item,
                        table |-> table_, nxt |-> nextItem, count |-> itemCount_]
        /\ UNCHANGED tableSize_

DeduplicatorNext ==
    \/ \E n \in 1..MaxTableSize : DedupSetup(n) /\ Elsewhere("Deduplicator")
    \/ \E item \in Items : InsertUnique(item) /\ Elsewhere("Deduplicator")
    \/ \E item \in Items : Insert(item) /\ Elsewhere("Deduplicator")

DeduplicatorSpec == Constructed /\ [][DeduplicatorNext]_vars

\* C20: insert(item) returns the item of equal content that is linked in the
\* table, if there is one, and leaves the chains and count() as they are;
\* otherwise it links item at the head of its hash slot, adds one to count()
\* and returns item.  So no two linked items have equal content, and equal
\* content always gets the same pointer back.
C20_Insert ==
    /\ \A a, b \in LinkedItems : ContentOf(a) = ContentOf(b) => a = b
    /\ inserted.op = "insert" =>
           LET item == inserted.item
               slot == Hash(item) % tableSize_
               equal == {e \in Linked(inserted.table, inserted.nxt) :
                            ContentOf(e) = ContentOf(item)}
           IN  IF equal # {}
               THEN /\ inserted.returned \in equal
                    /\ table_ = inserted.table
                    /\ nextItem = inserted.nxt
                    /\ itemCount_ = inserted.count
               ELSE /\ inserted.returned = item
                    /\ table_ = [inserted.table EXCEPT ![slot] = item]
                    /\ nextItem = [inserted.nxt EXCEPT ![item] = inserted.table[slot]]
                    /\ itemCount_ = inserted.count + 1

\* insert has found another item of equal content behind the head of a chain.
C20_Witness ==
    /\ inserted.op = "insert"
    /\ inserted.returned # inserted.item
    /\ table_[Hash(inserted.item) % tableSize_] # inserted.returned
    /\ itemCount_ = MaxContents

\* ================================================================ BitIterator
\* clarisma::BitIterator<T>, for an unsigned T that is not narrower than int
\* (a narrower T is promoted to int before the shift).
TypeBits == 5        \* bits in T
MaxCalls == TypeBits + 2

\* Bits::countTrailingZerosInNonZero: the number of zero bits below the lowest
\* one-bit.
RECURSIVE CountTrailingZerosInNonZero(_)
CountTrailingZerosInNonZero(bits) ==
    IF bits % 2 = 1 THEN 0 ELSE 1 + CountTrailingZerosInNonZero(bits \div 2)

\* bits_ >>= n + 1.  A shift by the whole width of T is undefined: the shift
\* instruction either takes the count modulo the width and leaves the bits as
\* they are, or shifts every bit out.
ShiftRightAssign(bits, shift) ==
    IF shift < TypeBits THEN {bits \div Power2(shift)} ELSE {bits, 0}

\* explicit BitIterator(T bits)
BitIteratorCtor(bits) ==
    /\ bits_' = bits
    /\ pos_' = 0
    /\ iterated' = bits
    /\ returned' = <<>>

\* int next()
next ==
    /\ Len(returned) < MaxCalls
    /\ IF bits_ = 0
       THEN /\ returned' = Append(returned, -1)
            /\ UNCHANGED <<bits_, pos_>>
       ELSE \E n \in {CountTrailingZerosInNonZero(bits_)} :
                /\ returned' = Append(returned, pos_ + n)
                /\ bits_' \in ShiftRightAssign(bits_, n + 1)
                /\ pos_' = pos_ + n + 1
    /\ UNCHANGED iterated

BitIteratorNext ==
    \/ \E bits \in 0..(Power2(TypeBits) - 1) : BitIteratorCtor(bits) /\ Elsewhere("BitIterator")
    \/ next /\ Elsewhere("BitIterator")

BitIteratorSpec == Constructed /\ [][BitIteratorNext]_vars

\* The positions of the one-bits of a value, and the i-th of them from below.
SetBits(bits) == {i \in 0..(TypeBits - 1) : (bits \div Power2(i)) % 2 = 1}
Nth(S, i) == CHOOSE x \in S : Cardinality({y \in S : y < x}) = i - 1

\* C21: for every value the iterator is constructed with, the value with only
\* the most significant bit set included, the calls of next() return the
\* positions of the one-bits in ascending order, each once, and -1 from then
\* on.
C21_AscendingOnce ==
    \A i \in 1..Len(returned) :
        returned[i] = IF i <= Cardinality(SetBits(iterated))
                      THEN Nth(SetBits(iterated), i)
                      ELSE -1

\* ============================================ Transaction::isFirstPageOfSegment
\* The segment test over the whole range of PageNum and of the page size.  A
\* page number is the set of the positions of its one-bits, bit 31 included.
PageNumBits == 32        \* using PageNum = uint32_t
SegmentSizeBits == 30    \* a segment is 1 GiB = 2^30 bytes
MaxOnes == 2             \* page numbers of at most this many one-bits, or zero-bits

PageBits == 0..(PageNumBits - 1)
PageSizeShifts == 0..(SegmentSizeBits - 1)

RECURSIVE WithOnes(_)
WithOnes(n) ==
    IF n = 0 THEN {{}}
    ELSE LET less == WithOnes(n - 1)
         IN  less \cup {s \cup {b} : s \in less, b \in PageBits}

PageNums == WithOnes(MaxOnes) \cup {PageBits \ s : s \in WithOnes(MaxOnes)}

\* The one-bits of a constant, and operator >> on them.
OneBits(n) == {i \in 0..SegmentSizeBits : (n \div Power2(i)) % 2 = 1}
ShiftRightBits(bits, n) == {i - n : i \in {j \in bits : j >= n}}

\* (page & ((0x3fff'ffff) >> store()->pageSizeShift_)) == 0
IsFirstPageOfSegmentAt_Unshifted(page, pageSizeShift) ==
    page \cap OneBits(SegmentMask) = {}
IsFirstPageOfSegmentAt(page, pageSizeShift) ==
    page \cap ShiftRightBits(OneBits(SegmentMask), pageSizeShift) = {}

IsFirstPageOfSegmentCall(page, pageSizeShift) ==
    segmentTest' = [tested |-> TRUE, page |-> page, pageSizeShift |-> pageSizeShift,
                    result |-> IsFirstPageOfSegmentAt(page, pageSizeShift)]

\* One call per run, of any page number in a store of any page size.
TransactionNext ==
    /\ ~segmentTest.tested
    /\ \E page \in PageNums, pageSizeShift \in PageSizeShifts :
           IsFirstPageOfSegmentCall(page, pageSizeShift) /\ Elsewhere("Transaction")

TransactionSpec == Constructed /\ [][TransactionNext]_vars

\* static_cast<uint64_t>(page) << pageSizeShift_: bits 0..60, none is lost.
ByteOffset(page, pageSizeShift) == {i + pageSizeShift : i \in page}
MultipleOfSegmentSize(offset) == \A i \in offset : i >= SegmentSizeBits

\* C22: for every 32-bit page number and every pageSizeShift below 30,
\* isFirstPageOfSegment(page) is true exactly when the byte offset
\* page << pageSizeShift is a multiple of the segment size of 1 GiB.
C22_SegmentStart ==
    segmentTest.tested =>
        (segmentTest.result <=>
            MultipleOfSegmentSize(ByteOffset(segmentTest.page, segmentTest.pageSizeShift)))

\* A page number with bit 31 set that starts a segment of a store of 4 KiB
\* pages (byte offset 2^43 + 2^30) has been tested.
C22_Witness ==
    /\ segmentTest.tested
    /\ segmentTest.page = {18, 31}
    /\ segmentTest.pageSizeShift = 12
    /\ segmentTest.result

=============================================================================
